---- MODULE Spec2Model ----
(***************************************************************************)
(* fs_mini (src/include/fs_mini.hpp): a header-only facade over the POSIX  *)
(* file API.  The facade functions are modelled as operators that mirror   *)
(* the C++ bodies; the operating system they call (a flat directory of     *)
(* regular files, directories and symbolic links, an inode table, a file   *)
(* descriptor table, the environment and the process-global errno) is the  *)
(* state.  The process is single threaded and unprivileged (permission     *)
(* bits of the owner are enforced, umask is 0).                            *)
(***************************************************************************)
EXTENDS Integers, Sequences, FiniteSets, TLC

VARIABLES
    dir,      \* the directory: name -> inode number, 0 when the name is absent
    inodes,   \* inode number -> [mode, data, target, kind]; mode 0 is a free inode;
              \* kind is the call that made the object (mkdir, open, symlink)
    fds,      \* file descriptor -> [ino, off, rd, wr]; ino 0 is a closed descriptor
    env,      \* environment: key -> value, Null when unset
    errno,    \* the process-global last-error slot
    res,      \* the outcome of the last facade call that returned or raised
    pc,       \* the position of the running program
    cf,       \* the locals of a running copy_file
    rt        \* the locals of the round-trip program of test/test.cpp

vars == <<dir, inodes, fds, env, errno, res, pc, cf, rt>>

-----------------------------------------------------------------------------
\* Bounds of the model.

\* The longest file content, in bytes.
MaxLen == 2
\* The size of the descriptor table (RLIMIT_NOFILE).
MaxFd == 2
\* The descriptors a program that creates, renames and removes holds open at a time.
OpenAtOnce == 1

NameSeq == <<"a", "b">>
Names == {NameSeq[j] : j \in 1..Len(NameSeq)}
Bytes == {0, 1}
EnvKeys == {"PWD", "KEY"}
Null == "nullptr"

Fds == 1..MaxFd
\* Every name and every open descriptor can hold an inode of its own.
MaxIno == Cardinality(Names) + MaxFd
Inos == 1..MaxIno
\* A chain of links over N names that is no cycle follows fewer than N links.
MaxHops == Cardinality(Names)

Contents == UNION {[1..n -> Bytes] : n \in 0..MaxLen}

-----------------------------------------------------------------------------
\* <sys/stat.h>, <errno.h>: the values the header's names stand for on Linux.

S_IFMT == 61440
S_IFSOCK == 49152
S_IFLNK == 40960
S_IFREG == 32768
S_IFBLK == 24576
S_IFDIR == 16384
S_IFCHR == 8192
S_IFIFO == 4096

owner_read == 256
owner_write == 128
owner_all == 448

ENOENT == 2
EBADF == 9
ENOMEM == 12
EACCES == 13
EEXIST == 17
ENOTDIR == 20
EISDIR == 21
EINVAL == 22
EMFILE == 24
ELOOP == 40

\* st_mode & S_IFMT: bits 12..15 of the mode.
IFMT(mode) == ((mode \div 4096) % 16) * 4096
\* st_mode & bit, for a single permission bit.
HasBit(mode, bit) == (mode \div bit) % 2 = 1

-----------------------------------------------------------------------------
\* The operating system.

FreeInode == [mode |-> 0, data |-> <<>>, target |-> Null, kind |-> "free"]
ClosedFd == [ino |-> 0, off |-> 0, rd |-> FALSE, wr |-> FALSE]

Min(S) == CHOOSE x \in S : \A y \in S : x <= y

Referenced(k, d, f) == (\E n \in Names : d[n] = k) \/ (\E fd \in Fds : f[fd].ino = k)

\* An inode that no name and no descriptor refers to is released.
Reap(d, i, f) == [k \in Inos |-> IF Referenced(k, d, f) THEN i[k] ELSE FreeInode]

FreeInos == {k \in Inos : inodes[k].mode = 0}
FreeFds == {fd \in Fds : fds[fd].ino = 0}

\* st_size: the content's length, the length of a link's target, a directory's block.
DirSize == 4096
SizeOf(k) ==
    IF IFMT(inodes[k].mode) = S_IFDIR THEN DirSize
    ELSE IF IFMT(inodes[k].mode) = S_IFLNK THEN Len(inodes[k].target)
    ELSE Len(inodes[k].data)

StatOf(k) == [st_mode |-> inodes[k].mode, st_size |-> SizeOf(k)]

\* The result of an OS call: err is the value the call stores in errno (0: errno
\* is left alone, as on success), ret its return value, out what it stores through
\* a pointer argument, and the state it leaves.
Sys(okv, e, retv, d, i, f) ==
    [ok |-> okv, err |-> e, ret |-> retv, out |-> Null, dir |-> d, inodes |-> i, fds |-> f]
Fail(e) == Sys(FALSE, e, -1, dir, inodes, fds)
Succ(retv) == Sys(TRUE, 0, retv, dir, inodes, fds)
\* A call that also fills a buffer of the caller (a struct stat, the bytes read).
Filling(r, v) == [r EXCEPT !.out = v]

\* Path resolution: the inode a name leads to, following a link in the last
\* component when follow is set.
RECURSIVE WalkIn(_, _, _, _, _)
WalkIn(d, i, n, follow, hops) ==
    IF d[n] = 0 THEN [err |-> ENOENT, ino |-> 0, name |-> n]
    ELSE IF follow /\ IFMT(i[d[n]].mode) = S_IFLNK
    THEN IF hops = 0 THEN [err |-> ELOOP, ino |-> 0, name |-> n]
         ELSE WalkIn(d, i, i[d[n]].target, follow, hops - 1)
    ELSE [err |-> 0, ino |-> d[n], name |-> n]

Walk(n, follow, hops) == WalkIn(dir, inodes, n, follow, hops)

SysStat(path) ==
    LET w == Walk(path, TRUE, MaxHops)
    IN IF w.err # 0 THEN Fail(w.err) ELSE Filling(Succ(0), StatOf(w.ino))

SysLstat(path) ==
    LET w == Walk(path, FALSE, MaxHops)
    IN IF w.err # 0 THEN Fail(w.err) ELSE Filling(Succ(0), StatOf(w.ino))

\* fstat(2) fails on a closed descriptor, and when the kernel is out of memory.
SysFstat(fd, nomem) ==
    IF fd \notin Fds \/ fds[fd].ino = 0 THEN Fail(EBADF)
    ELSE IF nomem THEN Fail(ENOMEM)
    ELSE Filling(Succ(0), StatOf(fds[fd].ino))

\* open(2).  The descriptor is reserved before the path is looked up.
SysOpen(path, flags, mode) ==
    LET w == Walk(path, TRUE, MaxHops)
        wantR == "readonly" \in flags \/ "read_write" \in flags
        wantW == "writeonly" \in flags \/ "read_write" \in flags
        fd == Min(FreeFds)
    IN IF FreeFds = {} THEN Fail(EMFILE)
       ELSE IF w.err = ELOOP THEN Fail(ELOOP)
       ELSE IF w.err = ENOENT
       THEN IF "create" \notin flags THEN Fail(ENOENT)
            ELSE LET k == Min(FreeInos)
                 IN Sys(TRUE, 0, fd,
                        [dir EXCEPT ![w.name] = k],
                        [inodes EXCEPT ![k] =
                            [mode |-> S_IFREG + mode, data |-> <<>>, target |-> Null, kind |-> "file"]],
                        [fds EXCEPT ![fd] =
                            [ino |-> k, off |-> 0, rd |-> wantR, wr |-> wantW]])
       ELSE LET m == inodes[w.ino].mode
            IN IF IFMT(m) = S_IFDIR /\ (wantW \/ "create" \in flags) THEN Fail(EISDIR)
               ELSE IF (wantR /\ ~HasBit(m, owner_read)) \/ (wantW /\ ~HasBit(m, owner_write))
               THEN Fail(EACCES)
               ELSE Sys(TRUE, 0, fd, dir,
                        IF "truncate" \in flags /\ wantW
                        THEN [inodes EXCEPT ![w.ino].data = <<>>] ELSE inodes,
                        [fds EXCEPT ![fd] =
                            [ino |-> w.ino, off |-> 0, rd |-> wantR, wr |-> wantW]])

SysClose(fd) ==
    IF fd \notin Fds \/ fds[fd].ino = 0 THEN Fail(EBADF)
    ELSE LET f == [fds EXCEPT ![fd] = ClosedFd]
         IN Sys(TRUE, 0, 0, dir, Reap(dir, inodes, f), f)

\* read(2) of at most nbytes: sz bytes are delivered, the caller's choice of sz
\* standing for the kernel's (a short read is allowed; 0 only at end of file).
ReadAvail(fd, nbytes) ==
    LET left == Len(inodes[fds[fd].ino].data) - fds[fd].off
        want == IF left < nbytes THEN left ELSE nbytes
    IN IF want <= 0 THEN {0} ELSE 1..want

SysRead(fd, nbytes, sz) ==
    IF fd \notin Fds \/ fds[fd].ino = 0 \/ ~fds[fd].rd THEN Fail(EBADF)
    ELSE IF IFMT(inodes[fds[fd].ino].mode) = S_IFDIR THEN Fail(EISDIR)
    ELSE Filling(Sys(TRUE, 0, sz, dir, inodes, [fds EXCEPT ![fd].off = @ + sz]),
                 SubSeq(inodes[fds[fd].ino].data, fds[fd].off + 1, fds[fd].off + sz))

\* The content after bytes are stored at offset off.
Overwrite(data, off, bytes) ==
    [j \in 1..(IF Len(data) > off + Len(bytes) THEN Len(data) ELSE off + Len(bytes)) |->
        IF j > off /\ j <= off + Len(bytes) THEN bytes[j - off]
        ELSE IF j <= Len(data) THEN data[j] ELSE 0]

\* write(2) of buf: sz bytes are accepted (a short write is allowed).
WriteAvail(nbytes) == IF nbytes = 0 THEN {0} ELSE 1..nbytes

SysWrite(fd, buf, sz) ==
    IF fd \notin Fds \/ fds[fd].ino = 0 \/ ~fds[fd].wr THEN Fail(EBADF)
    ELSE Sys(TRUE, 0, sz, dir,
             [inodes EXCEPT ![fds[fd].ino].data = Overwrite(@, fds[fd].off, SubSeq(buf, 1, sz))],
             [fds EXCEPT ![fd].off = @ + sz])

SysMkdir(path, mode) ==
    IF dir[path] # 0 THEN Fail(EEXIST)
    ELSE LET k == Min(FreeInos)
         IN Sys(TRUE, 0, 0, [dir EXCEPT ![path] = k],
                [inodes EXCEPT ![k] = [mode |-> S_IFDIR + mode, data |-> <<>>, target |-> Null,
                                       kind |-> "directory"]],
                fds)

SysSymlink(target, path) ==
    IF dir[path] # 0 THEN Fail(EEXIST)
    ELSE LET k == Min(FreeInos)
         IN Sys(TRUE, 0, 0, [dir EXCEPT ![path] = k],
                [inodes EXCEPT ![k] = [mode |-> S_IFLNK + 511, data |-> <<>>, target |-> target,
                                       kind |-> "symlink"]],
                fds)

SysUnlink(path) ==
    IF dir[path] = 0 THEN Fail(ENOENT)
    ELSE IF IFMT(inodes[dir[path]].mode) = S_IFDIR THEN Fail(EISDIR)
    ELSE LET d == [dir EXCEPT ![path] = 0]
         IN Sys(TRUE, 0, 0, d, Reap(d, inodes, fds), fds)

\* remove(3): unlink(2) for a file, rmdir(2) for a directory (always empty here).
SysRemove(path) ==
    IF dir[path] = 0 THEN Fail(ENOENT)
    ELSE LET d == [dir EXCEPT ![path] = 0]
         IN Sys(TRUE, 0, 0, d, Reap(d, inodes, fds), fds)

\* rename(2): a no-op when both names are the same object; replaces newp.
SysRename(oldp, newp) ==
    IF dir[oldp] = 0 THEN Fail(ENOENT)
    ELSE IF dir[newp] = dir[oldp] THEN Succ(0)
    ELSE IF dir[newp] # 0 /\ IFMT(inodes[dir[oldp]].mode) = S_IFDIR
                          /\ IFMT(inodes[dir[newp]].mode) # S_IFDIR THEN Fail(ENOTDIR)
    ELSE IF dir[newp] # 0 /\ IFMT(inodes[dir[oldp]].mode) # S_IFDIR
                          /\ IFMT(inodes[dir[newp]].mode) = S_IFDIR THEN Fail(EISDIR)
    ELSE LET d == [dir EXCEPT ![newp] = dir[oldp], ![oldp] = 0]
         IN Sys(TRUE, 0, 0, d, Reap(d, inodes, fds), fds)

\* copy_file_range(2) with null offsets, as fs/read_write.c checks and performs it:
\* the count is cut to what the source holds past its offset, ranges of one file
\* may not overlap, and k of the count's bytes are copied (fewer than asked is
\* allowed; 0 only when nothing is left to copy).
CopyCount(fdin, len) ==
    LET left == Len(inodes[fds[fdin].ino].data) - fds[fdin].off
    IN IF left <= 0 THEN 0 ELSE IF left < len THEN left ELSE len

CopyAvail(fdin, fdout, len) ==
    IF fdin \in Fds /\ fds[fdin].ino # 0 /\ CopyCount(fdin, len) > 0
    THEN 1..CopyCount(fdin, len) ELSE {0}

SysCopyFileRange(fdin, fdout, len, k) ==
    IF fdin \notin Fds \/ fdout \notin Fds \/ fds[fdin].ino = 0 \/ fds[fdout].ino = 0
    THEN Fail(EBADF)
    ELSE LET src == fds[fdin]
             dst == fds[fdout]
             count == CopyCount(fdin, len)
         IN IF IFMT(inodes[src.ino].mode) = S_IFDIR \/ IFMT(inodes[dst.ino].mode) = S_IFDIR
            THEN Fail(EISDIR)
            ELSE IF ~src.rd \/ ~dst.wr THEN Fail(EBADF)
            ELSE IF src.ino = dst.ino /\ dst.off + count > src.off /\ dst.off < src.off + count
            THEN Fail(EINVAL)
            ELSE Sys(TRUE, 0, k, dir,
                     [inodes EXCEPT ![dst.ino].data =
                         Overwrite(@, dst.off,
                                   SubSeq(inodes[src.ino].data, src.off + 1, src.off + k))],
                     [fd \in Fds |->
                         IF fd = fdin \/ fd = fdout
                         THEN [fds[fd] EXCEPT !.off = @ + k] ELSE fds[fd]])

\* getenv(3): a null pointer for an unset key; errno is not written.
SysGetenv(key) ==
    IF env[key] = Null THEN Sys(FALSE, 0, Null, dir, inodes, fds) ELSE Succ(env[key])

-----------------------------------------------------------------------------
\* The facade.  A facade function yields o, what the caller sees (a return
\* value or a raised std::system_error), and r, the OS call it made.

\* errno once the OS call r has returned.
ErrnoAfter(r) == IF r.err = 0 THEN errno ELSE r.err

\* fs_error::get: the error built from the name and from errno as it is then.
get(err, eno) == [raised |-> TRUE, what |-> err, code |-> eno, ret |-> Null]
Return(v) == [raised |-> FALSE, what |-> "", code |-> 0, ret |-> v]

open_file(file_path, flags, mode) ==
    LET r == SysOpen(file_path, flags, mode)
    IN [o |-> IF r.ret = -1 THEN get("open()", ErrnoAfter(r)) ELSE Return(r.ret), r |-> r]

close_file(fd) ==
    LET r == SysClose(fd)
    IN [o |-> IF r.ret = -1 THEN get("close()", ErrnoAfter(r)) ELSE Return(0), r |-> r]

read_object(fd, nbytes, sz) ==
    LET r == SysRead(fd, nbytes, sz)
    IN [o |-> IF r.ret = -1 THEN get("read()", ErrnoAfter(r)) ELSE Return(r.ret), r |-> r]

write_object(fd, buf, sz) ==
    LET r == SysWrite(fd, buf, sz)
    IN [o |-> IF r.ret = -1 THEN get("write()", ErrnoAfter(r)) ELSE Return(r.ret), r |-> r]

file_size(path) ==
    LET r == SysStat(path)
    IN [o |-> IF r.ret = -1 THEN get("stat()", ErrnoAfter(r)) ELSE Return(r.out.st_size),
        r |-> r]

\* file_size(fd) returning the st_mode field.
file_size_fd_mode(fd, nomem) ==
    LET r == SysFstat(fd, nomem)
    IN [o |-> IF r.ret = -1 THEN get("fstat()", ErrnoAfter(r)) ELSE Return(r.out.st_mode),
        r |-> r]

file_size_fd(fd, nomem) ==
    LET r == SysFstat(fd, nomem)
    IN [o |-> IF r.ret = -1 THEN get("fstat()", ErrnoAfter(r)) ELSE Return(r.out.st_size),
        r |-> r]

is_file_exists(path) ==
    LET r == SysStat(path)
        eno == ErrnoAfter(r)
    IN [o |-> IF r.ret = -1
              THEN IF eno = ENOENT THEN Return(FALSE) ELSE get("stat()", ErrnoAfter(r))
              ELSE Return(IFMT(r.out.st_mode) = S_IFREG),
        r |-> r]

\* is_directory_exists with lstat in place of stat.
is_directory_exists_lstat(path) ==
    LET r == SysLstat(path)
        eno == ErrnoAfter(r)
    IN [o |-> IF r.ret = -1
              THEN IF eno = ENOENT THEN Return(FALSE) ELSE get("lstat()", ErrnoAfter(r))
              ELSE Return(IFMT(r.out.st_mode) = S_IFDIR),
        r |-> r]

\* is_directory_exists with the test of is_file_exists.
is_directory_exists_reg(path) ==
    LET r == SysStat(path)
        eno == ErrnoAfter(r)
    IN [o |-> IF r.ret = -1
              THEN IF eno = ENOENT THEN Return(FALSE) ELSE get("stat()", ErrnoAfter(r))
              ELSE Return(IFMT(r.out.st_mode) = S_IFREG),
        r |-> r]

is_directory_exists(path) ==
    LET r == SysStat(path)
        eno == ErrnoAfter(r)
    IN [o |-> IF r.ret = -1
              THEN IF eno = ENOENT THEN Return(FALSE) ELSE get("stat()", ErrnoAfter(r))
              ELSE Return(IFMT(r.out.st_mode) = S_IFDIR),
        r |-> r]

is_symlink_exists(path) ==
    LET r == SysLstat(path)
        eno == ErrnoAfter(r)
    IN [o |-> IF r.ret = -1
              THEN IF eno = ENOENT THEN Return(FALSE) ELSE get("lstat()", ErrnoAfter(r))
              ELSE Return(IFMT(r.out.st_mode) = S_IFLNK),
        r |-> r]

create_symlink(target, link_path) ==
    LET r == SysSymlink(target, link_path)
    IN [o |-> IF r.ret = -1 THEN get("symlink()", ErrnoAfter(r)) ELSE Return(0), r |-> r]

get_permissions(file) ==
    LET r == SysStat(file)
    IN [o |-> IF r.ret = -1 THEN get("stat()", ErrnoAfter(r)) ELSE Return(r.out.st_mode),
        r |-> r]

remove_file(file) ==
    LET r == SysUnlink(file)
    IN [o |-> IF r.ret = -1 THEN get("unlink()", ErrnoAfter(r)) ELSE Return(0), r |-> r]

remove_empty_directory(d) ==
    LET r == SysRemove(d)
    IN [o |-> IF r.ret = -1 THEN get("remove()", ErrnoAfter(r)) ELSE Return(0), r |-> r]

create_directory(d, mode) ==
    LET r == SysMkdir(d, mode)
    IN [o |-> IF r.ret = -1 THEN get("mkdir()", ErrnoAfter(r)) ELSE Return(0), r |-> r]

rename_path(old_path, new_path) ==
    LET r == SysRename(old_path, new_path)
    IN [o |-> IF r.ret = -1 THEN get("rename()", ErrnoAfter(r)) ELSE Return(0), r |-> r]

is_env_exists(key) ==
    LET r == SysGetenv(key)
    IN [o |-> Return(r.ret # Null), r |-> r]

current_directory ==
    LET r == SysGetenv("PWD")
    IN [o |-> IF r.ret = Null THEN get("getenv()", ErrnoAfter(r)) ELSE Return(r.ret), r |-> r]

read_env(key) ==
    LET r == SysGetenv(key)
    IN [o |-> IF r.ret = Null THEN get("getenv()", ErrnoAfter(r)) ELSE Return(r.ret), r |-> r]

\* is_file_match with the not-found policy of is_file_exists.
is_file_match_lenient(file, type) ==
    LET r == SysLstat(file)
    IN [o |-> IF r.ret = -1
              THEN IF ErrnoAfter(r) = ENOENT THEN Return(FALSE)
                   ELSE get("lstat()", ErrnoAfter(r))
              ELSE Return(IFMT(r.out.st_mode) = type),
        r |-> r]

\* is_file_match with stat in place of lstat.
is_file_match_stat(file, type) ==
    LET r == SysStat(file)
    IN [o |-> IF r.ret = -1 THEN get("lstat()", ErrnoAfter(r))
              ELSE Return(IFMT(r.out.st_mode) = type),
        r |-> r]

is_file_match(file, type) ==
    LET r == SysLstat(file)
    IN [o |-> IF r.ret = -1 THEN get("lstat()", ErrnoAfter(r))
              ELSE Return(IFMT(r.out.st_mode) = type),
        r |-> r]

is_block_file(loc) == is_file_match(loc, S_IFBLK)
is_character_file(loc) == is_file_match(loc, S_IFCHR)
is_directory(loc) == is_file_match(loc, S_IFDIR)
is_fifo(loc) == is_file_match(loc, S_IFIFO)
is_pipe(loc) == is_fifo(loc)
is_symlink(loc) == is_file_match(loc, S_IFLNK)
is_regular_file(loc) == is_file_match(loc, S_IFREG)
is_socket(loc) == is_file_match(loc, S_IFSOCK)

get_file_type(file) ==
    LET r == SysLstat(file)
    IN [o |-> IF r.ret = -1 THEN get("lstat()", ErrnoAfter(r))
              ELSE Return(IFMT(r.out.st_mode)),
        r |-> r]

-----------------------------------------------------------------------------
\* The program: calls of the facade, one at a time.

\* The flags and modes the callers pass (test/test.cpp:13-14, 21).
OpenFlags == {{"readonly"}, {"create", "read_write"}}
Perms == {owner_read, owner_read + owner_write}

NoCall ==
    [op |-> "none", path |-> "", path2 |-> "", fd |-> 0, o |-> Return(0), oserr |-> 0,
     made |-> {}, was |-> Null, buf |-> <<>>]

\* What a finished call c of op leaves: the state of the OS call, errno, and in
\* res the outcome, the names the call brought into existence, and the errno
\* value the OS call stored (0: none).
Finish(op, p, q, fd, c, was, buf) ==
    /\ dir' = c.r.dir
    /\ inodes' = c.r.inodes
    /\ fds' = c.r.fds
    /\ errno' = ErrnoAfter(c.r)
    /\ res' = [op |-> op, path |-> p, path2 |-> q, fd |-> fd, o |-> c.o, oserr |-> c.r.err,
               made |-> {n \in Names : dir[n] = 0 /\ c.r.dir[n] # 0},
               was |-> was, buf |-> buf]

Facade(op, p, q, fd, c) ==
    /\ pc = "idle"
    /\ Finish(op, p, q, fd, c, Null, <<>>)
    /\ UNCHANGED <<env, pc, cf, rt>>

OpenFile ==
    \E p \in Names, flags \in OpenFlags, mode \in Perms :
        Facade("open_file", p, "", 0,
               open_file(p, flags, IF "create" \in flags THEN mode ELSE 0))

CloseFile == \E fd \in Fds : Facade("close_file", "", "", fd, close_file(fd))

WriteObject ==
    \E fd \in Fds, buf \in Contents, sz \in 0..MaxLen :
        /\ sz \in WriteAvail(Len(buf))
        /\ fds[fd].off + Len(buf) <= MaxLen
        /\ Facade("write_object", "", "", fd, write_object(fd, buf, sz))

ReadObject ==
    \E fd \in Fds, nbytes \in 0..MaxLen, sz \in 0..MaxLen :
        /\ sz \in (IF fds[fd].ino # 0 THEN ReadAvail(fd, nbytes) ELSE {0})
        /\ pc = "idle"
        /\ LET c == read_object(fd, nbytes, sz)
           IN Finish("read_object", "", "", fd, c, Null, IF c.r.ok THEN c.r.out ELSE <<>>)
        /\ UNCHANGED <<env, pc, cf, rt>>

FileSize == \E p \in Names : Facade("file_size", p, "", 0, file_size(p))

FileSizeFd ==
    \E fd \in Fds, nomem \in BOOLEAN :
        Facade("file_size_fd", "", "", fd, file_size_fd(fd, nomem))

IsFileExists == \E p \in Names : Facade("is_file_exists", p, "", 0, is_file_exists(p))

IsDirectoryExists ==
    \E p \in Names : Facade("is_directory_exists", p, "", 0, is_directory_exists(p))

IsSymlinkExists ==
    \E p \in Names : Facade("is_symlink_exists", p, "", 0, is_symlink_exists(p))

CreateSymlink ==
    \E t \in Names, p \in Names : Facade("create_symlink", p, t, 0, create_symlink(t, p))

GetPermissions == \E p \in Names : Facade("get_permissions", p, "", 0, get_permissions(p))

RemoveFile == \E p \in Names : Facade("remove_file", p, "", 0, remove_file(p))

RemoveEmptyDirectory ==
    \E p \in Names : Facade("remove_empty_directory", p, "", 0, remove_empty_directory(p))

CreateDirectory ==
    \E p \in Names : Facade("create_directory", p, "", 0, create_directory(p, owner_all))

\* res.was keeps what file_size(old_path) was before the call (Null: it raised).
RenamePath ==
    \E p \in Names, q \in Names :
        /\ pc = "idle"
        /\ Finish("rename_path", p, q, 0, rename_path(p, q),
                  IF file_size(p).o.raised THEN Null ELSE file_size(p).o.ret, <<>>)
        /\ UNCHANGED <<env, pc, cf, rt>>

IsEnvExists == \E k \in EnvKeys : Facade("is_env_exists", k, "", 0, is_env_exists(k))

CurrentDirectory == Facade("current_directory", "", "", 0, current_directory)

ReadEnv == \E k \in EnvKeys : Facade("read_env", k, "", 0, read_env(k))

\* The predicates built on is_file_match, by name.
TypePredicates ==
    {"is_block_file", "is_character_file", "is_directory", "is_fifo", "is_pipe",
     "is_symlink", "is_regular_file", "is_socket"}

Predicate(f, loc) ==
    CASE f = "is_block_file" -> is_block_file(loc)
      [] f = "is_character_file" -> is_character_file(loc)
      [] f = "is_directory" -> is_directory(loc)
      [] f = "is_fifo" -> is_fifo(loc)
      [] f = "is_pipe" -> is_pipe(loc)
      [] f = "is_symlink" -> is_symlink(loc)
      [] f = "is_regular_file" -> is_regular_file(loc)
      [] f = "is_socket" -> is_socket(loc)

TypePredicate == \E f \in TypePredicates, p \in Names : Facade(f, p, "", 0, Predicate(f, p))

GetFileType == \E p \in Names : Facade("get_file_type", p, "", 0, get_file_type(p))

-----------------------------------------------------------------------------
\* The states a program starts in.

\* No disk and no descriptors: what cf.pre holds while no copy_file runs.
NoSnapshot == [dir |-> [n \in Names |-> 0], inodes |-> [k \in Inos |-> FreeInode],
               fds |-> [fd \in Fds |-> ClosedFd]]
NoCopy == [target |-> "", dest_path |-> "", rfd |-> -1, wfd |-> -1, len |-> 0,
           c_range |-> 0, tick |-> 0, pre |-> NoSnapshot]
\* main's locals, and with them whether the path was absent at the first open_file
\* (fresh) and the counts write_object and read_object returned, which main drops.
NoRoundTrip == [path |-> "", B |-> <<>>, perms |-> 0, wfd |-> -1, rfd |-> -1,
                sz |-> -1, p |-> <<>>, fresh |-> FALSE, wrote |-> -1, got |-> -1]

EmptyDisk ==
    /\ dir = [n \in Names |-> 0]
    /\ inodes = [k \in Inos |-> FreeInode]
    /\ fds = [fd \in Fds |-> ClosedFd]

\* What a name can hold when the program starts: nothing, a directory, a link to
\* any name, or a regular file of any content and permission.
Objects ==
    {FreeInode,
     [mode |-> S_IFDIR + owner_all, data |-> <<>>, target |-> Null, kind |-> "directory"]}
    \cup {[mode |-> S_IFLNK + 511, data |-> <<>>, target |-> t, kind |-> "symlink"] :
             t \in Names}
    \cup {[mode |-> S_IFREG + m, data |-> c, target |-> Null, kind |-> "file"] :
             m \in Perms, c \in Contents}

\* A disk left by earlier programs: the j-th name holds inode j, no descriptor is open.
AnyDisk ==
    /\ \E obj \in [1..Len(NameSeq) -> Objects] :
          /\ inodes = [k \in Inos |-> IF k <= Len(NameSeq) THEN obj[k] ELSE FreeInode]
          /\ dir = [n \in Names |->
                      LET j == CHOOSE x \in 1..Len(NameSeq) : NameSeq[x] = n
                      IN IF obj[j] = FreeInode THEN 0 ELSE j]
    /\ fds = [fd \in Fds |-> ClosedFd]

Idle ==
    /\ res = NoCall
    /\ pc = "idle"
    /\ cf = NoCopy
    /\ rt = NoRoundTrip

-----------------------------------------------------------------------------
\* Spec: the metadata queries and the environment accessors, called in any
\* order by a fresh process on any disk.

Init ==
    /\ AnyDisk
    /\ env \in {[k \in EnvKeys |-> IF k = s THEN "/" ELSE Null] : s \in EnvKeys}
    /\ errno = 0
    /\ Idle

Next ==
    \/ FileSize
    \/ IsFileExists
    \/ IsDirectoryExists
    \/ IsSymlinkExists
    \/ GetPermissions
    \/ TypePredicate
    \/ GetFileType
    \/ IsEnvExists
    \/ CurrentDirectory
    \/ ReadEnv

Spec == Init /\ [][Next]_vars

-----------------------------------------------------------------------------
\* SpecNames: every sequence of successful create_directory, open_file,
\* close_file, rename_path, remove_file and remove_empty_directory calls (a call
\* that raises changes nothing on disk), in a directory that is empty or holds
\* one regular file of any content.
\* SpecKinds: the same with create_symlink, from an empty directory.

Succeeds(call) == call /\ ~res'.o.raised

OneFile ==
    \E c \in Contents, m \in Perms :
        /\ inodes = [k \in Inos |->
                        IF k = 1 THEN [mode |-> S_IFREG + m, data |-> c, target |-> Null,
                                       kind |-> "file"]
                        ELSE FreeInode]
        /\ dir = [n \in Names |-> IF n = NameSeq[1] THEN 1 ELSE 0]
        /\ fds = [fd \in Fds |-> ClosedFd]

InitNames ==
    /\ EmptyDisk \/ OneFile
    /\ env = [k \in EnvKeys |-> Null]
    /\ errno = 0
    /\ Idle

NextNames ==
    \/ Cardinality(Fds \ FreeFds) < OpenAtOnce /\ Succeeds(OpenFile)
    \/ Succeeds(CloseFile)
    \/ Succeeds(CreateDirectory)
    \/ Succeeds(RemoveFile)
    \/ Succeeds(RemoveEmptyDirectory)
    \/ Succeeds(RenamePath)

SpecNames == InitNames /\ [][NextNames]_vars

InitKinds ==
    /\ EmptyDisk
    /\ env = [k \in EnvKeys |-> Null]
    /\ errno = 0
    /\ Idle

NextKinds ==
    \/ Cardinality(Fds \ FreeFds) < OpenAtOnce /\ Succeeds(OpenFile)
    \/ Succeeds(CloseFile)
    \/ Succeeds(CreateDirectory)
    \/ Succeeds(CreateSymlink)
    \/ Succeeds(RemoveFile)
    \/ Succeeds(RemoveEmptyDirectory)
    \/ Succeeds(RenamePath)

SpecKinds == InitKinds /\ [][NextKinds]_vars

-----------------------------------------------------------------------------
\* copy_file, one OS call at a time.  cf.pre is the disk and the descriptor
\* table as the call found them; cf.tick is the parity of the loop's iterations.

CfStep(r, nextpc, newcf) ==
    /\ dir' = r.dir
    /\ inodes' = r.inodes
    /\ fds' = r.fds
    /\ errno' = ErrnoAfter(r)
    /\ pc' = nextpc
    /\ cf' = newcf
    /\ UNCHANGED <<env, res, rt>>

\* copy_file is left, by return or by throw, with the locals c.
CfLeave(o, r, c) ==
    /\ dir' = r.dir
    /\ inodes' = r.inodes
    /\ fds' = r.fds
    /\ errno' = ErrnoAfter(r)
    /\ pc' = "idle"
    /\ cf' = NoCopy
    /\ res' = [op |-> "copy_file", path |-> c.target, path2 |-> c.dest_path, fd |-> 0,
               o |-> o, oserr |-> r.err,
               made |-> {n \in Names : c.pre.dir[n] = 0 /\ r.dir[n] # 0},
               was |-> [rfd |-> c.rfd, wfd |-> c.wfd, pre |-> c.pre], buf |-> <<>>]
    /\ UNCHANGED <<env, rt>>

\* auto rfd = ::open(target, readonly); if (rfd == -1) throw
CfOpenSource ==
    \E target \in Names, dest_path \in Names :
        /\ pc = "idle"
        /\ LET r == SysOpen(target, {"readonly"}, 0)
               c == [NoCopy EXCEPT !.target = target, !.dest_path = dest_path,
                                   !.rfd = r.ret,
                                   !.pre = [dir |-> dir, inodes |-> inodes, fds |-> fds]]
           IN IF r.ret = -1 THEN CfLeave(get("open()", ErrnoAfter(r)), r, c)
              ELSE CfStep(r, "open_dest", c)

\* The mode open(2) reads when O_CREAT is given and no third argument is passed.
IndeterminateModes == {0, owner_read, owner_read + owner_write}

\* CfOpenDest with the truncate flag added.
CfOpenDestTruncating ==
    \E mode \in IndeterminateModes :
        /\ pc = "open_dest"
        /\ LET r == SysOpen(cf.dest_path, {"writeonly", "create", "truncate"}, mode)
               c == [cf EXCEPT !.wfd = r.ret]
           IN IF r.ret = -1 THEN CfLeave(get("open()", ErrnoAfter(r)), r, c)
              ELSE CfStep(r, "fstat", c)

\* auto wfd = ::open(dest_path, writeonly | create); if (wfd == -1) throw
CfOpenDest ==
    \E mode \in IndeterminateModes :
        /\ pc = "open_dest"
        /\ LET r == SysOpen(cf.dest_path, {"writeonly", "create"}, mode)
               c == [cf EXCEPT !.wfd = r.ret]
           IN IF r.ret = -1 THEN CfLeave(get("open()", ErrnoAfter(r)), r, c)
              ELSE CfStep(r, "fstat", c)

\* if (::fstat(rfd, &st) != -1) throw; len = st.st_size
\* st holds what fstat stored, and is indeterminate when fstat stored nothing.
CfFstat ==
    \E nomem \in BOOLEAN, junk \in 0..(MaxLen + 1) :
        /\ pc = "fstat"
        /\ LET r == SysFstat(cf.rfd, nomem)
               st == IF r.ok THEN r.out ELSE [st_mode |-> 0, st_size |-> junk]
           IN IF r.ret # -1 THEN junk = 0 /\ CfLeave(get("fstat()", ErrnoAfter(r)), r, cf)
              ELSE CfStep(r, "transfer", [cf EXCEPT !.len = st.st_size])

\* do { c_range = ::copy_file_range(rfd, wfd, len); if (c_range == -1UL) throw;
\*      len -= c_range; } while (len > 0)
CfTransfer ==
    \E k \in 0..MaxLen :
        /\ pc = "transfer"
        /\ k \in CopyAvail(cf.rfd, cf.wfd, cf.len)
        /\ LET r == SysCopyFileRange(cf.rfd, cf.wfd, cf.len, k)
               c_range == r.ret
               c == [cf EXCEPT !.c_range = c_range, !.len = @ - c_range,
                               !.tick = 1 - @]
           IN IF c_range = -1 THEN CfLeave(get("copy_file_range()", ErrnoAfter(r)), r, cf)
              ELSE CfStep(r, IF c.len > 0 THEN "transfer" ELSE "close", c)

\* CfClose without the second close.
CfCloseSourceOnly ==
    /\ pc = "close"
    /\ LET f == [fds EXCEPT ![cf.rfd] = ClosedFd]
       IN CfLeave(Return(Null), Sys(TRUE, 0, 0, dir, Reap(dir, inodes, f), f), cf)

\* ::close(rfd); ::close(wfd); and the return
CfClose ==
    /\ pc = "close"
    /\ LET f == [fd \in Fds |-> IF fd = cf.rfd \/ fd = cf.wfd THEN ClosedFd ELSE fds[fd]]
       IN CfLeave(Return(Null), Sys(TRUE, 0, 0, dir, Reap(dir, inodes, f), f), cf)

CopyFile == CfOpenSource \/ CfOpenDest \/ CfFstat \/ CfTransfer \/ CfClose

\* SpecCopy: copy_file called again and again on any disk.
InitCopy ==
    /\ AnyDisk
    /\ env = [k \in EnvKeys |-> Null]
    /\ errno = 0
    /\ res = [NoCall EXCEPT !.o = Return(Null),
                            !.was = [rfd |-> -1, wfd |-> -1, pre |-> NoSnapshot]]
    /\ pc = "idle"
    /\ cf = NoCopy
    /\ rt = NoRoundTrip

NextCopy ==
    \/ CfOpenSource
    \/ CfOpenDest
    \/ CfFstat
    \/ CfTransfer
    \/ CfClose

SpecCopy == InitCopy /\ [][NextCopy]_vars

\* A call that has started runs on: the thread is never suspended for good.
\* Every step of copy_file but a failed first open changes pc or cf.tick.
FairSpecCopy == SpecCopy /\ WF_<<pc, cf.tick>>(CopyFile)

-----------------------------------------------------------------------------
\* The round trip of test/test.cpp (main, from the first open_file on), for any
\* file name, byte string B and permission bits.  An exception nobody catches
\* ends the program.

RtStep(op, fd, c, nextpc, newrt, buf) ==
    /\ Finish(op, rt.path, "", fd, c, Null, buf)
    /\ pc' = IF c.o.raised THEN "terminated" ELSE nextpc
    /\ rt' = IF c.o.raised THEN rt ELSE newrt
    /\ UNCHANGED <<env, cf>>

\* auto wfd = fs::open_file(file, create | read_write, perms)
RtOpenWrite ==
    /\ pc = "open_write"
    /\ LET c == open_file(rt.path, {"create", "read_write"}, rt.perms)
       IN RtStep("open_file", 0, c, "write", [rt EXCEPT !.wfd = c.o.ret], <<>>)

\* fs::write_object(wfd, a.c_str(), a.size())
RtWrite ==
    \E sz \in WriteAvail(Len(rt.B)) :
        /\ pc = "write"
        /\ LET c == write_object(rt.wfd, rt.B, sz)
           IN RtStep("write_object", rt.wfd, c, "close_write",
                     [rt EXCEPT !.wrote = c.o.ret], <<>>)

\* fs::close_file(wfd)
RtCloseWrite ==
    /\ pc = "close_write"
    /\ RtStep("close_file", rt.wfd, close_file(rt.wfd), "open_read", rt, <<>>)

\* auto rfd = fs::open_file(file, readonly)
RtOpenRead ==
    /\ pc = "open_read"
    /\ LET c == open_file(rt.path, {"readonly"}, 0)
       IN RtStep("open_file", 0, c, "size", [rt EXCEPT !.rfd = c.o.ret], <<>>)

\* const auto sz = fs::file_size(rfd)
RtSize ==
    \E nomem \in BOOLEAN :
        /\ pc = "size"
        /\ LET c == file_size_fd(rt.rfd, nomem)
           IN RtStep("file_size_fd", rt.rfd, c, "read", [rt EXCEPT !.sz = c.o.ret], <<>>)

\* fs::read_object(rfd, p.get(), sz)
RtRead ==
    \E n \in 0..MaxLen :
        /\ pc = "read"
        /\ n \in ReadAvail(rt.rfd, rt.sz)
        /\ LET c == read_object(rt.rfd, rt.sz, n)
           IN RtStep("read_object", rt.rfd, c, "close_read",
                     [rt EXCEPT !.p = c.r.out, !.got = c.o.ret], IF c.r.ok THEN c.r.out ELSE <<>>)

\* fs::close_file(rfd)
RtCloseRead ==
    /\ pc = "close_read"
    /\ RtStep("close_file", rt.rfd, close_file(rt.rfd), "exit", rt, <<>>)

\* SpecRoundTrip: the program on any disk.
InitRoundTrip ==
    /\ AnyDisk
    /\ env = [k \in EnvKeys |-> Null]
    /\ errno = 0
    /\ res = NoCall
    /\ cf = NoCopy
    /\ pc = "open_write"
    /\ \E path \in Names, B \in Contents, perms \in {0} \cup Perms :
          rt = [NoRoundTrip EXCEPT !.path = path, !.B = B, !.perms = perms,
                                   !.fresh = (dir[path] = 0)]

NextRoundTrip ==
    \/ RtOpenWrite
    \/ RtWrite
    \/ RtCloseWrite
    \/ RtOpenRead
    \/ RtSize
    \/ RtRead
    \/ RtCloseRead

SpecRoundTrip == InitRoundTrip /\ [][NextRoundTrip]_vars

-----------------------------------------------------------------------------
\* What the claims speak of.

\* The call that made the object a name holds ("free": the name is absent).
\* The outcome o is a return of v; a throw of Error(what, code).
Returns(o, v) == ~o.raised /\ o.ret = v
Raises(o, what, code) == o.raised /\ o.what = what /\ o.code = code

KindAt(n) == IF dir[n] = 0 THEN "free" ELSE inodes[dir[n]].kind
\* The object a path leads to when links are followed.
Target(p) == Walk(p, TRUE, MaxHops)
Succeeded(op) == res.op = op /\ ~res.o.raised
NoLinkOnDisk == \A n \in Names : KindAt(n) # "symlink"

\* The existence check that fits the kind of the object at p.
ExistsAt(p) ==
    IF KindAt(p) = "directory" THEN is_directory_exists(p).o ELSE is_file_exists(p).o
GoneAt(p) == Returns(is_file_exists(p).o, FALSE) /\ Returns(is_directory_exists(p).o, FALSE)

ChecksReflectDisk ==
    \A n \in Names :
        /\ Returns(is_file_exists(n).o, KindAt(n) = "file")
        /\ Returns(is_directory_exists(n).o, KindAt(n) = "directory")

AfterCreationAndRemoval ==
    /\ Succeeded("create_directory") => Returns(is_directory_exists(res.path).o, TRUE)
    /\ (Succeeded("open_file") /\ res.made # {}) => Returns(is_file_exists(res.path).o, TRUE)
    /\ Succeeded("remove_file") => GoneAt(res.path)
    /\ Succeeded("remove_empty_directory") => GoneAt(res.path)

AfterRename(old, new) ==
    /\ GoneAt(old)
    /\ Returns(ExistsAt(new), TRUE)
    /\ Returns(file_size(new).o, res.was)

\* C3 as claimed: after any sequence of successful create_directory, file
\* creation, rename_path, remove_file and remove_empty_directory calls the
\* existence checks reflect the directory: false for an absent path, true right
\* after a creation, false right after a removal, and after rename_path(old, new)
\* false for old, true for new, with file_size(new) the size old had.
C3_ExistenceFollowsCalls ==
    NoLinkOnDisk =>
        /\ ChecksReflectDisk
        /\ AfterCreationAndRemoval
        /\ Succeeded("rename_path") => AfterRename(res.path, res.path2)

\* C3 as amended: the same, with rename_path(old, new) making old absent only
\* when old and new are different paths; rename_path(p, p) succeeds and leaves p
\* in place, with its size.
C3_ExistenceFollowsCallsDistinct ==
    NoLinkOnDisk =>
        /\ ChecksReflectDisk
        /\ AfterCreationAndRemoval
        /\ (Succeeded("rename_path") /\ res.path # res.path2) =>
              AfterRename(res.path, res.path2)
        /\ (Succeeded("rename_path") /\ res.path = res.path2) =>
              /\ Returns(ExistsAt(res.path), TRUE)
              /\ Returns(file_size(res.path).o, res.was)

\* A regular file that holds bytes has just been renamed to another name.
C3_Witness ==
    /\ Succeeded("rename_path")
    /\ res.path # res.path2
    /\ res.was \in 1..MaxLen
    /\ KindAt(res.path2) = "file"

\* C4: a path that is not found (ENOENT) makes is_file_exists,
\* is_directory_exists and is_symlink_exists return false, and an unset key makes
\* is_env_exists return false, without raising; it makes file_size,
\* get_permissions, get_file_type and every predicate built on is_file_match
\* raise; any other stat failure raises in both families; and no call that
\* returns has hidden a failed OS call, except those two not-found cases.
Swallowing == {"is_file_exists", "is_directory_exists"}
Raising == {"file_size", "get_permissions"}
OnTheLink == TypePredicates \cup {"get_file_type"}

C4_NotFoundPolicy ==
    /\ res.op \in Swallowing =>
          LET st == SysStat(res.path)
          IN /\ st.err = ENOENT => Returns(res.o, FALSE)
             /\ (~st.ok /\ st.err # ENOENT) => Raises(res.o, "stat()", st.err)
             /\ (~st.ok /\ ~res.o.raised) => st.err = ENOENT
    /\ res.op = "is_symlink_exists" =>
          LET st == SysLstat(res.path)
          IN /\ st.err = ENOENT => Returns(res.o, FALSE)
             /\ (~st.ok /\ st.err # ENOENT) => Raises(res.o, "lstat()", st.err)
             /\ (~st.ok /\ ~res.o.raised) => st.err = ENOENT
    /\ res.op = "is_env_exists" =>
          /\ ~res.o.raised
          /\ env[res.path] = Null => Returns(res.o, FALSE)
    /\ res.op \in Raising =>
          LET st == SysStat(res.path)
          IN /\ ~st.ok => Raises(res.o, "stat()", st.err)
             /\ ~res.o.raised => st.ok /\ res.o.ret >= 0
    /\ res.op \in OnTheLink =>
          LET st == SysLstat(res.path)
          IN /\ ~st.ok => Raises(res.o, "lstat()", st.err)
             /\ ~res.o.raised => st.ok

\* is_directory_exists has raised on a stat failure that is not a not-found.
C4_Witness ==
    /\ res.op = "is_directory_exists"
    /\ res.o.raised
    /\ res.o.code = ELOOP

\* C9: is_file_exists and is_directory_exists judge what a link leads to;
\* is_symlink_exists, get_file_type and the is_file_match predicates judge the
\* link.  For a link to a directory is_directory_exists and is_symlink_exists are
\* true, is_directory is false and get_file_type is the link type; for a dangling
\* link is_file_exists and is_directory_exists are false and is_symlink_exists is
\* true; get_permissions is the whole mode of what the link leads to.
IsLink(p) == p \in Names /\ KindAt(p) = "symlink"
LeadsTo(p, kind) == Target(p).err = 0 /\ inodes[Target(p).ino].kind = kind
Dangling(p) == Target(p).err = ENOENT

C9_SymlinkFollowing ==
    IsLink(res.path) =>
        /\ (res.op = "is_directory_exists" /\ LeadsTo(res.path, "directory")) =>
              Returns(res.o, TRUE)
        /\ (res.op = "is_file_exists" /\ LeadsTo(res.path, "file")) => Returns(res.o, TRUE)
        /\ (res.op \in Swallowing /\ Dangling(res.path)) => Returns(res.o, FALSE)
        /\ res.op = "is_symlink_exists" => Returns(res.o, TRUE)
        /\ res.op = "get_file_type" => Returns(res.o, S_IFLNK)
        /\ res.op \in TypePredicates => Returns(res.o, res.op = "is_symlink")
        /\ (res.op = "get_permissions" /\ Target(res.path).err = 0) =>
              Returns(res.o, inodes[Target(res.path).ino].mode)

\* is_directory_exists has been asked about a link to a directory.
C9_Witness ==
    /\ res.op = "is_directory_exists"
    /\ IsLink(res.path)
    /\ LeadsTo(res.path, "directory")
    /\ Returns(res.o, TRUE)

\* C6: for every object made as a directory, a regular file or a symlink, the
\* one predicate of its kind is true and every other is false, get_file_type is
\* the kind's constant, and is_pipe agrees with is_fifo on every path.
PredicateOf(kind) ==
    CASE kind = "directory" -> "is_directory"
      [] kind = "file" -> "is_regular_file"
      [] kind = "symlink" -> "is_symlink"

TypeOf(kind) ==
    CASE kind = "directory" -> S_IFDIR
      [] kind = "file" -> S_IFREG
      [] kind = "symlink" -> S_IFLNK

C6_PredicatesAgree ==
    \A n \in Names :
        /\ is_pipe(n).o = is_fifo(n).o
        /\ KindAt(n) # "free" =>
              /\ \A f \in TypePredicates :
                    Returns(Predicate(f, n).o, f = PredicateOf(KindAt(n)))
              /\ Returns(get_file_type(n).o, TypeOf(KindAt(n)))

\* A symlink to a regular file has just been made, beside a directory.
C6_Witness ==
    /\ Succeeded("create_symlink")
    /\ KindAt(res.path) = "symlink"
    /\ \E n \in Names : KindAt(n) = "directory"

-----------------------------------------------------------------------------
\* copy_file.

\* The objects by name: what a reader of the directory finds.
View(d, i) == [n \in Names |-> IF d[n] = 0 THEN FreeInode ELSE i[d[n]]]
OpenIn(f) == {fd \in Fds : f[fd].ino # 0}
\* copy_file has just been left; res tells how.
Copied == res.op = "copy_file" /\ pc = "idle"
\* Where the paths of the finished copy_file led when it was called.
SourceBefore == WalkIn(res.was.pre.dir, res.was.pre.inodes, res.path, TRUE, MaxHops)
DestBefore == WalkIn(res.was.pre.dir, res.was.pre.inodes, res.path2, TRUE, MaxHops)
ViewBefore == View(res.was.pre.dir, res.was.pre.inodes)

SourceReadable ==
    /\ SourceBefore.err = 0
    /\ res.was.pre.inodes[SourceBefore.ino].kind = "file"
    /\ HasBit(res.was.pre.inodes[SourceBefore.ino].mode, owner_read)

\* The destination is absent, or another regular file that may be written.
DestUsable ==
    \/ DestBefore.err = ENOENT
    \/ /\ DestBefore.err = 0
       /\ DestBefore.ino # SourceBefore.ino
       /\ res.was.pre.inodes[DestBefore.ino].kind = "file"
       /\ HasBit(res.was.pre.inodes[DestBefore.ino].mode, owner_write)

\* C1 as claimed: copy_file of an existing readable file (of 0, 1 or more
\* bytes), to a destination it may create or write and with two descriptors
\* free, returns without raising and leaves the destination with the source's
\* bytes.
C1_CopyIsIdentical ==
    (Copied /\ SourceReadable /\ DestUsable
            /\ Cardinality(Fds \ OpenIn(res.was.pre.fds)) >= 2) =>
        /\ ~res.o.raised
        /\ Target(res.path2).err = 0
        /\ inodes[Target(res.path2).ino].data = res.was.pre.inodes[SourceBefore.ino].data

\* C5 as claimed: an Error that is raised carries the code that the OS call it
\* names has just stored in errno, never a code that was in errno before.
C5_ErrorCarriesFailingCode ==
    res.o.raised => (res.oserr # 0 /\ res.o.code = res.oserr)

\* C7: when copy_file returns, the two descriptors it opened are closed and the
\* open descriptors are those open before the call; when it raises, every
\* descriptor it opened is still open: the source's after a failed open of the
\* destination, both after a failure of the metadata or the transfer step.
C7_HandleAccounting ==
    Copied =>
        LET before == OpenIn(res.was.pre.fds)
            opened == {res.was.rfd, res.was.wfd} \cap Fds
        IN /\ opened \cap before = {}
           /\ ~res.o.raised => (OpenIn(fds) = before /\ Cardinality(opened) = 2)
           /\ res.o.raised => OpenIn(fds) = before \cup opened
           /\ (res.o.raised /\ res.o.what = "open()") => Cardinality(opened) <= 1
           /\ (res.o.raised /\ res.o.what # "open()") => Cardinality(opened) = 2

\* copy_file has returned, and both descriptors it held are closed again.
C7_Witness ==
    /\ Copied
    /\ ~res.o.raised
    /\ {res.was.rfd, res.was.wfd} \subseteq Fds \ OpenIn(fds)

\* C8 as claimed: a copy_file that has entered its transfer loop leaves it, by
\* return or by throw.
C8_CopyStops == (pc = "transfer") ~> (pc = "idle")

-----------------------------------------------------------------------------
\* The round trip.

\* C2 as claimed: for every byte string B the seven calls of the round trip all
\* succeed, the size reported is |B| and the bytes read are B.
C2_RoundTrip ==
    /\ pc # "terminated"
    /\ pc = "exit" => (rt.sz = Len(rt.B) /\ rt.p = rt.B)

\* C2 as amended: on a path that was absent and with permission bits that let
\* the owner read, no call of the round trip raises unless fstat runs out of
\* memory, the size reported is the count write_object returned and the bytes
\* read are the first bytes of B; when write_object and read_object transferred
\* all they were asked for, the size is |B| and the bytes read are B.
C2_RoundTripOnFreshPath ==
    (rt.fresh /\ HasBit(rt.perms, owner_read)) =>
        /\ pc = "terminated" => (res.op = "file_size_fd" /\ res.o.code = ENOMEM)
        /\ pc \in {"read", "close_read", "exit"} => rt.sz = rt.wrote
        /\ pc \in {"close_read", "exit"} => rt.p = SubSeq(rt.B, 1, rt.got)
        /\ (pc = "exit" /\ rt.wrote = Len(rt.B) /\ rt.got = rt.sz) =>
               (rt.sz = Len(rt.B) /\ rt.p = rt.B)

\* The round trip of the longest B has run to the end on a fresh path.
C2_Witness ==
    /\ pc = "exit"
    /\ rt.fresh
    /\ HasBit(rt.perms, owner_read)
    /\ Len(rt.B) = MaxLen
    /\ rt.sz = MaxLen
    /\ rt.p = rt.B

====
